---- MODULE Spec2Model ----
(***************************************************************************)
(* Model of rust-hello-world/src/main.rs: a warp HTTP service with two     *)
(* routes (greeting on the root path, health on the segment "health"),     *)
(* a hostname captured at startup and a port read from the environment.    *)
(*                                                                         *)
(* Strings that the program parses or formats (the PORT value, the port    *)
(* in the startup line, request paths) are sequences of one-character      *)
(* strings or of path segments, so that parsing and formatting are         *)
(* computed and not assumed.                                               *)
(***************************************************************************)
EXTENDS Integers, Sequences, FiniteSets, TLC

\* ------------------------------------------------------------------ bounds

\* Longest PORT value drawn in the startup specification.
MaxPortLen == 5
\* Number of connections handled concurrently.
MaxConns == 2
\* Largest reading of the wall clock.
MaxClock == 2

\* --------------------------------------------------------------- constants

\* u16::MAX, the largest value parse::<u16>() accepts.
U16Max == 65535
\* The fallback of unwrap_or(8080).
DefaultPort == 8080
\* warp::http::StatusCode::OK, also the status of warp::reply::json.
StatusOk == 200
\* The status warp gives a request no filter matched.
StatusNotFound == 404

\* ------------------------------------------------------ characters, digits

Digits == <<"0", "1", "2", "3", "4", "5", "6", "7", "8", "9">>

IsDigit(c) == \E i \in 1..Len(Digits) : Digits[i] = c

\* char::to_digit(10) on a decimal digit.
DigitVal(c) == (CHOOSE i \in 1..Len(Digits) : Digits[i] = c) - 1

\* The characters PORT values are drawn from: digits enough to write 0,
\* 65535 and 65536, both signs and a letter.
PortChars == {"0", "3", "5", "6", "+", "-", "a"}

StringsUpTo(n) == UNION {[1..k -> PortChars] : k \in 0..n}

\* ------------------------------------------------------------ Result types

Ok(v) == [ok |-> TRUE, val |-> v, err |-> "none"]

Err(e) == [ok |-> FALSE, val |-> 0, err |-> e]

\* ------------------------------------------------------- std::env::var

NotPresent == [kind |-> "NotPresent", val |-> <<>>]

NotUnicode == [kind |-> "NotUnicode", val |-> <<>>]

Present(s) == [kind |-> "Present", val |-> s]

\* env::var("PORT"): Ok(value) for a variable that is set to valid Unicode,
\* Err(NotPresent) or Err(NotUnicode) otherwise.
EnvVar(e) == IF e.kind = "Present" THEN Ok(e.val) ELSE Err(e.kind)

\* ----------------------------------------------------- str::parse::<u16>

\* The digit loop of from_str_radix: every character must be a digit, and
\* the accumulator is multiplied and added to with overflow checks.
RECURSIVE FromDigits(_, _)
FromDigits(digits, result) ==
    IF digits = <<>> THEN Ok(result)
    ELSE IF ~IsDigit(Head(digits)) THEN Err("InvalidDigit")
    ELSE LET mul == result * 10
         IN  IF mul > U16Max THEN Err("PosOverflow")
             ELSE LET add == mul + DigitVal(Head(digits))
                  IN  IF add > U16Max THEN Err("PosOverflow")
                      ELSE FromDigits(Tail(digits), add)

\* A variant of the parser whose accumulator wraps modulo 2^16 instead of
\* reporting the overflow.
RECURSIVE FromDigitsWrapping(_, _)
FromDigitsWrapping(digits, result) ==
    IF digits = <<>> THEN Ok(result)
    ELSE IF ~IsDigit(Head(digits)) THEN Err("InvalidDigit")
    ELSE FromDigitsWrapping(Tail(digits),
                            (result * 10 + DigitVal(Head(digits))) % (U16Max + 1))

ParseU16Wrapping(src) ==
    IF src = <<>> THEN Err("Empty")
    ELSE IF Len(src) = 1 /\ Head(src) \in {"+", "-"} THEN Err("InvalidDigit")
    ELSE IF Head(src) = "+" THEN FromDigitsWrapping(Tail(src), 0)
    ELSE FromDigitsWrapping(src, 0)

\* A variant of the parser that rejects the largest value.
ParseU16Exclusive(src) ==
    LET r == IF src = <<>> THEN Err("Empty")
             ELSE IF Len(src) = 1 /\ Head(src) \in {"+", "-"} THEN Err("InvalidDigit")
             ELSE IF Head(src) = "+" THEN FromDigits(Tail(src), 0)
             ELSE FromDigits(src, 0)
    IN  IF r.ok /\ r.val = U16Max THEN Err("PosOverflow") ELSE r

\* str::parse::<u16>(): the empty string and a lone sign are errors, one
\* leading "+" is skipped, and for an unsigned type "-" is no sign but an
\* invalid digit.
ParseU16(src) ==
    IF src = <<>> THEN Err("Empty")
    ELSE IF Len(src) = 1 /\ Head(src) \in {"+", "-"} THEN Err("InvalidDigit")
    ELSE IF Head(src) = "+" THEN FromDigits(Tail(src), 0)
    ELSE FromDigits(src, 0)

\* Result::unwrap_or / unwrap_or_else.
UnwrapOr(r, default) == IF r.ok THEN r.val ELSE default

\* The literal "8080" of the inner fallback.
DefaultPortString == <<"8", "0", "8", "0">>

\* env::var("PORT").unwrap_or_else(|_| "8080".to_string())
\*     .parse::<u16>().unwrap_or(8080)
ResolvedPort(e) ==
    UnwrapOr(ParseU16(UnwrapOr(EnvVar(e), DefaultPortString)), DefaultPort)

\* ------------------------------------------------ Display for u16 ("{}")

RECURSIVE ToDigits(_)
ToDigits(n) ==
    IF n < 10 THEN <<Digits[n + 1]>>
    ELSE ToDigits(n \div 10) \o <<Digits[(n % 10) + 1]>>

StartPrefix == "Starting Rust server on port "

\* format!("Starting Rust server on port {}", port)
StartLine(p) == <<StartPrefix>> \o ToDigits(p)

\* ------------------------------------------------------------ the hostname

\* What gethostname::gethostname() can return: an OsString that is valid
\* Unicode, or one that is not (into_string() then returns Err).
OsNames ==
    { [valid |-> TRUE, name |-> "web-1"],
      [valid |-> TRUE, name |-> "web-2"],
      [valid |-> FALSE, name |-> "web-\\377"] }

\* OsString::into_string()
IntoString(os) == IF os.valid THEN Ok(os.name) ELSE Err("NotUnicode")

UnknownHost == "unknown"

\* A variant of the hostname fallback that keeps the bytes it was given
\* instead of substituting the literal.
HostnameOrLossy(os) == os.name

\* gethostname().into_string().unwrap_or_else(|_| "unknown".to_string())
HostnameOr(os) == UnwrapOr(IntoString(os), UnknownHost)

\* --------------------------------------------------------------- the clock

\* chrono's to_rfc3339() of the instants the clock can show.
Instants ==
    << "2024-01-01T00:00:00+00:00", "2024-01-01T00:00:01+00:00",
       "2024-01-01T00:00:02+00:00", "2024-01-01T00:00:03+00:00",
       "2024-01-01T00:00:04+00:00", "2024-01-01T00:00:05+00:00" >>

\* chrono::Utc::now().to_rfc3339() at clock reading t.
Rfc3339(t) == Instants[t + 1]

\* ------------------------------------------------------------- the replies

Message == "Hello World from Rust! \\u1F980"

\* A reply: status, content type, and a body that is text or a JSON object
\* (a sequence of <<key, value>> pairs in serialisation order).
Reply(status, ctype, text, json) ==
    [status |-> status, ctype |-> ctype, text |-> text, json |-> json]

NoReply == Reply(0, "", "", <<>>)

\* The struct Response { message, hostname, timestamp }.
Response(h, t) == [message |-> Message, hostname |-> h, timestamp |-> t]

\* A variant of the serialisation that skips the timestamp.
ToJsonSkipping(r) ==
    << <<"message", r.message>>, <<"hostname", r.hostname>> >>

\* serde's derived Serialize: the fields in declaration order.
ToJson(r) ==
    << <<"message", r.message>>, <<"hostname", r.hostname>>,
       <<"timestamp", r.timestamp>> >>

\* warp::reply::json(&response)
JsonReply(r) == Reply(StatusOk, "application/json", "", ToJson(r))

\* warp::reply::with_status("OK", StatusCode::OK)
HealthReply == Reply(StatusOk, "text/plain; charset=utf-8", "OK", <<>>)

\* warp's reply to a request every filter rejected as not found.
NotFoundReply == Reply(StatusNotFound, "", "", <<>>)

\* ------------------------------------------------------------- the filters

\* Request paths, as sequences of segments: /, /health, /health/x, /foo,
\* /healthz, /foo/health.
Paths ==
    { <<>>, <<"health">>, <<"health", "x">>, <<"foo">>, <<"healthz">>,
      <<"foo", "health">> }

\* warp::path::end(): nothing of the path is left to match.
PathEnd(path) == path = <<>>

\* warp::path(seg): the next segment is seg; what follows it is not looked at.
PathSegment(seg, path) == path # <<>> /\ Head(path) = seg

\* ---------------------------------------------------------------- the state

VARIABLES
    pc,          \* where main() is: "hostname", "port", "print", "bind",
                 \* "serving", or "panicked"
    envPORT,     \* the PORT entry of the process environment
    osHostname,  \* the host's name, as the operating system has it now
    gotName,     \* what the call of gethostname() returned
    resolves,    \* how many times gethostname() has been called
    hostname,    \* the String moved into the hello closure
    port,        \* the u16 port
    stdout,      \* the lines printed to standard output
    listener,    \* "none", "bound" or "failed"
    bindAddr,    \* the address handed to run()
    now,         \* the wall clock
    conns        \* the connections: idle, request received, or replied

vars ==
    << pc, envPORT, osHostname, gotName, resolves, hostname, port, stdout,
       listener, bindAddr, now, conns >>

ConnIds == 1..MaxConns

Idle == [st |-> "idle", path |-> <<>>, reply |-> NoReply]

NoAddr == [ip |-> <<>>, port |-> 0]

\* PORT values of the serving specification: absent, a number, a signed
\* number and text.
SampleEnv ==
    { NotPresent, Present(<<"3", "0">>), Present(<<"+", "5">>),
      Present(<<"a">>) }

\* PORT values of the startup specification: absent, not Unicode, and every
\* string over PortChars up to MaxPortLen.
AllEnv == {NotPresent, NotUnicode} \cup {Present(s) : s \in StringsUpTo(MaxPortLen)}

Start ==
    /\ pc = "hostname"
    /\ osHostname \in OsNames
    /\ gotName = [valid |-> TRUE, name |-> ""]
    /\ resolves = 0
    /\ hostname = ""
    /\ port = 0
    /\ stdout = <<>>
    /\ listener = "none"
    /\ bindAddr = NoAddr
    /\ now = 0
    /\ conns = [c \in ConnIds |-> Idle]

Init == envPORT \in SampleEnv /\ Start

InitStartup == envPORT \in AllEnv /\ Start

\* ------------------------------------------------------------------ main()

\* let hostname = gethostname().into_string().unwrap_or_else(...)
ResolveHostname ==
    /\ pc = "hostname"
    /\ gotName' = osHostname
    /\ resolves' = resolves + 1
    /\ hostname' = HostnameOr(osHostname)
    /\ pc' = "port"
    /\ UNCHANGED <<envPORT, osHostname, port, stdout, listener, bindAddr, now, conns>>

\* let port = env::var("PORT")...unwrap_or(8080)
ResolvePort ==
    /\ pc = "port"
    /\ port' = ResolvedPort(envPORT)
    /\ pc' = "print"
    /\ UNCHANGED <<envPORT, osHostname, gotName, resolves, hostname, stdout,
                   listener, bindAddr, now, conns>>

\* A variant of the startup line that is printed twice.
PrintStartTwice ==
    /\ pc = "print"
    /\ stdout' = stdout \o <<StartLine(port), StartLine(port)>>
    /\ pc' = "bind"
    /\ UNCHANGED <<envPORT, osHostname, gotName, resolves, hostname, port,
                   listener, bindAddr, now, conns>>

\* println!("Starting Rust server on port {}", port)
PrintStart ==
    /\ pc = "print"
    /\ stdout' = Append(stdout, StartLine(port))
    /\ pc' = "bind"
    /\ UNCHANGED <<envPORT, osHostname, gotName, resolves, hostname, port,
                   listener, bindAddr, now, conns>>

\* warp::serve(routes).run(([0, 0, 0, 0], port)): the listener binds and the
\* server starts to accept connections.
BindOk ==
    /\ pc = "bind"
    /\ bindAddr' = [ip |-> <<0, 0, 0, 0>>, port |-> port]
    /\ listener' = "bound"
    /\ pc' = "serving"
    /\ UNCHANGED <<envPORT, osHostname, gotName, resolves, hostname, port,
                   stdout, now, conns>>

\* A variant of the bind failure that is ignored: the server goes on to
\* accept connections.
BindFailIgnored ==
    /\ pc = "bind"
    /\ bindAddr' = [ip |-> <<0, 0, 0, 0>>, port |-> port]
    /\ listener' = "failed"
    /\ pc' = "serving"
    /\ UNCHANGED <<envPORT, osHostname, gotName, resolves, hostname, port,
                   stdout, now, conns>>

\* warp::serve(routes).run(([0, 0, 0, 0], port)): the bind fails (the port
\* is in use, or not permitted) and run() panics.
BindFail ==
    /\ pc = "bind"
    /\ bindAddr' = [ip |-> <<0, 0, 0, 0>>, port |-> port]
    /\ listener' = "failed"
    /\ pc' = "panicked"
    /\ UNCHANGED <<envPORT, osHostname, gotName, resolves, hostname, port,
                   stdout, now, conns>>

\* ------------------------------------------------------------- the routes

\* A variant of the greeting handler that asks the host for its name on
\* every request.
helloResolving(path) ==
    IF PathEnd(path)
    THEN Ok(JsonReply(Response(HostnameOr(osHostname), Rfc3339(now))))
    ELSE Err("not_found")

\* warp::path::end().map(move || { ...; warp::reply::json(&response) })
hello(path) ==
    IF PathEnd(path)
    THEN Ok(JsonReply(Response(hostname, Rfc3339(now))))
    ELSE Err("not_found")

\* A variant of the health handler that reports the hostname.
healthNamed(path) ==
    IF PathSegment("health", path)
    THEN Ok(Reply(StatusOk, "text/plain; charset=utf-8", hostname, <<>>))
    ELSE Err("not_found")

\* warp::path("health").map(|| warp::reply::with_status("OK", StatusCode::OK))
health(path) ==
    IF PathSegment("health", path) THEN Ok(HealthReply) ELSE Err("not_found")

\* hello.or(health): the first filter that matches replies.
routes(path) ==
    LET first == hello(path) IN IF first.ok THEN first ELSE health(path)

\* The reply of the served routes: a rejection becomes warp's 404.
Served(path) == UnwrapOr(routes(path), NotFoundReply)

\* ----------------------------------------------------------- the requests

\* The server reads a request from a connection.
Accept(c) ==
    /\ pc = "serving"
    /\ conns[c].st = "idle"
    /\ \E path \in Paths :
           conns' = [conns EXCEPT ![c] = [st |-> "received", path |-> path,
                                          reply |-> NoReply]]
    /\ UNCHANGED <<pc, envPORT, osHostname, gotName, resolves, hostname, port,
                   stdout, listener, bindAddr, now>>

\* A variant of the dispatch in which the request being routed is kept in
\* one place for all connections: a request is answered with the routing of
\* the request another connection has received meanwhile.
HandleShared(c) ==
    /\ pc = "serving"
    /\ conns[c].st = "received"
    /\ LET others == {d \in ConnIds : d # c /\ conns[d].st = "received"}
           path == IF others = {} THEN conns[c].path
                   ELSE conns[CHOOSE d \in others : TRUE].path
       IN  conns' = [conns EXCEPT ![c].st = "replied", ![c].reply = Served(path)]
    /\ UNCHANGED <<pc, envPORT, osHostname, gotName, resolves, hostname, port,
                   stdout, listener, bindAddr, now>>

\* The request of a connection is routed and its handler builds the reply.
Handle(c) ==
    /\ pc = "serving"
    /\ conns[c].st = "received"
    /\ conns' = [conns EXCEPT ![c].st = "replied",
                              ![c].reply = Served(conns[c].path)]
    /\ UNCHANGED <<pc, envPORT, osHostname, gotName, resolves, hostname, port,
                   stdout, listener, bindAddr, now>>

\* The reply is written; the connection can carry the next request.
Finish(c) ==
    /\ pc = "serving"
    /\ conns[c].st = "replied"
    /\ conns' = [conns EXCEPT ![c] = Idle]
    /\ UNCHANGED <<pc, envPORT, osHostname, gotName, resolves, hostname, port,
                   stdout, listener, bindAddr, now>>

\* -------------------------------------------------------- the environment

\* Time passes.
Tick ==
    /\ now < MaxClock
    /\ now' = now + 1
    /\ UNCHANGED <<pc, envPORT, osHostname, gotName, resolves, hostname, port,
                   stdout, listener, bindAddr, conns>>

\* The host is renamed while the process runs.
HostRename ==
    /\ \E os \in OsNames \ {osHostname} : osHostname' = os
    /\ UNCHANGED <<pc, envPORT, gotName, resolves, hostname, port, stdout,
                   listener, bindAddr, now, conns>>

Next ==
    \/ ResolveHostname
    \/ ResolvePort
    \/ PrintStart
    \/ BindOk
    \/ BindFail
    \/ \E c \in ConnIds : Accept(c)
    \/ \E c \in ConnIds : Handle(c)
    \/ \E c \in ConnIds : Finish(c)
    \/ Tick
    \/ HostRename

Spec == Init /\ [][Next]_vars

NextStartup ==
    \/ ResolveHostname
    \/ ResolvePort
    \/ PrintStart
    \/ BindOk
    \/ BindFail

SpecStartup == InitStartup /\ [][NextStartup]_vars

\* ============================================================== the claims

Replied(c) == conns[c].st = "replied"

\* The value of key k in a JSON object that has it.
Field(json, k) == json[CHOOSE i \in DOMAIN json : json[i][1] = k][2]

Keys(json) == {json[i][1] : i \in DOMAIN json}

\* A string of one or more decimal digits.
IsNumeric(s) == s # <<>> /\ \A i \in DOMAIN s : IsDigit(s[i])

\* The integer a string of decimal digits denotes.
RECURSIVE DecimalValue(_)
DecimalValue(s) ==
    IF s = <<>> THEN 0
    ELSE DecimalValue(SubSeq(s, 1, Len(s) - 1)) * 10 + DigitVal(s[Len(s)])

\* PORT is set to a numeric string that denotes an integer in [0, 65535].
InRangeNumeric(e) ==
    e.kind = "Present" /\ IsNumeric(e.val) /\ DecimalValue(e.val) <= U16Max

\* PORT is set to "+" followed by a numeric string in [0, 65535].
PlusInRangeNumeric(e) ==
    /\ e.kind = "Present"
    /\ e.val # <<>>
    /\ Head(e.val) = "+"
    /\ InRangeNumeric(Present(Tail(e.val)))

PortResolved == pc \in {"print", "bind", "serving", "panicked"}

AnyAddr == <<0, 0, 0, 0>>

\* ---------------------------------------------------------------------- C1
\* C1 (as claimed): every request whose path is neither / nor exactly
\* /health, /health/x included, is answered with 404.
C1_OnlyExactPathsMatch ==
    \A c \in ConnIds :
        Replied(c) /\ conns[c].path \notin {<<>>, <<"health">>}
            => conns[c].reply.status = StatusNotFound

\* ---------------------------------------------------------------------- C2
\* C2: when PORT is a numeric string denoting an integer in [0, 65535], the
\* resolved port is that integer and run() is handed 0.0.0.0 and that port.
C2_NumericPortIsBound ==
    InRangeNumeric(envPORT) =>
        /\ PortResolved => port = DecimalValue(envPORT.val)
        /\ listener # "none" =>
               bindAddr = [ip |-> AnyAddr, port |-> DecimalValue(envPORT.val)]

C2_Witness ==
    /\ envPORT = Present(<<"6", "5", "5", "3", "5">>)
    /\ listener = "bound"
    /\ bindAddr = [ip |-> AnyAddr, port |-> U16Max]

\* ---------------------------------------------------------------------- C3
\* C3 (as claimed): when PORT is absent, or is anything but a numeric string
\* denoting an integer in [0, 65535], the resolved port is 8080.
C3_NonNumericFallsBack ==
    ~InRangeNumeric(envPORT) /\ PortResolved => port = DefaultPort

\* C3 (amended): when PORT is absent, not Unicode, or anything but decimal
\* digits, optionally preceded by one "+", denoting an integer in
\* [0, 65535], the resolved port is 8080, the startup line is the one of an
\* absent PORT, startup goes on, and only a failed bind ends the process; a
\* "+" followed by such digits resolves to the integer they denote.
C3_RejectedFallsBack ==
    /\ ~InRangeNumeric(envPORT) /\ ~PlusInRangeNumeric(envPORT) =>
           /\ PortResolved => port = DefaultPort
           /\ stdout \in {<<>>, <<StartLine(DefaultPort)>>}
           /\ pc = "port" => ENABLED ResolvePort
           /\ pc = "panicked" => listener = "failed"
    /\ PlusInRangeNumeric(envPORT) /\ PortResolved =>
           port = DecimalValue(Tail(envPORT.val))

C3_Witness ==
    /\ envPORT = Present(<<"6", "5", "5", "3", "6">>)
    /\ pc = "serving"
    /\ port = DefaultPort

\* ---------------------------------------------------------------------- C4
\* A reply is the greeting: 200, JSON, exactly the three fields, the fixed
\* message.
IsGreeting(r) ==
    /\ r.status = StatusOk
    /\ r.ctype = "application/json"
    /\ r.text = ""
    /\ Len(r.json) = 3
    /\ Keys(r.json) = {"message", "hostname", "timestamp"}
    /\ Field(r.json, "message") = Message

\* C4: every reply to / is the greeting, and any two of them carry the same
\* message and the same hostname.
C4_GreetingShape ==
    \A c \in ConnIds :
        Replied(c) /\ conns[c].path = <<>> =>
            /\ IsGreeting(conns[c].reply)
            /\ \A d \in ConnIds :
                   Replied(d) /\ conns[d].path = <<>> /\ IsGreeting(conns[d].reply) =>
                       /\ Field(conns[c].reply.json, "message")
                              = Field(conns[d].reply.json, "message")
                       /\ Field(conns[c].reply.json, "hostname")
                              = Field(conns[d].reply.json, "hostname")

C4_Witness ==
    /\ Replied(1) /\ conns[1].path = <<>>
    /\ Replied(2) /\ conns[2].path = <<>>
    /\ Field(conns[1].reply.json, "timestamp")
           # Field(conns[2].reply.json, "timestamp")
    /\ Field(conns[1].reply.json, "hostname")
           = Field(conns[2].reply.json, "hostname")

\* ---------------------------------------------------------------------- C5
\* C5: every reply to /health is 200 with the body OK, whatever the
\* hostname and the clock are.
C5_HealthIsFixed ==
    \A c \in ConnIds :
        Replied(c) /\ conns[c].path = <<"health">> =>
            /\ conns[c].reply.status = StatusOk
            /\ conns[c].reply.text = "OK"
            /\ conns[c].reply.json = <<>>

C5_Witness ==
    /\ Replied(1) /\ conns[1].path = <<"health">>
    /\ conns[1].reply.text = "OK"
    /\ now > 0
    /\ hostname = UnknownHost
    /\ conns[2].st = "received"

\* ---------------------------------------------------------------------- C6
\* C6: gethostname() is called once, before the listener is bound and any
\* request is read; the hostname is what that call gave, and every greeting
\* carries it, whatever the host is called by then.
C6_HostnameResolvedOnce ==
    /\ resolves <= 1
    /\ pc # "hostname" => resolves = 1 /\ hostname = HostnameOr(gotName)
    /\ listener # "none" => resolves = 1
    /\ \A c \in ConnIds :
           /\ conns[c].st # "idle" => resolves = 1
           /\ Replied(c) /\ conns[c].path = <<>> =>
                  Field(conns[c].reply.json, "hostname") = HostnameOr(gotName)

C6_Witness ==
    /\ Replied(1) /\ conns[1].path = <<>>
    /\ gotName.valid
    /\ osHostname.valid
    /\ osHostname # gotName
    /\ Field(conns[1].reply.json, "hostname") = gotName.name
    /\ resolves = 1

\* ---------------------------------------------------------------------- C7
\* C7: when the name gethostname() returned is not Unicode, the hostname is
\* "unknown", startup goes on to the bind, only a failed bind ends the
\* process, and every greeting carries "unknown".
C7_UnknownOnFailure ==
    pc # "hostname" /\ ~gotName.valid =>
        /\ hostname = UnknownHost
        /\ pc = "port" => ENABLED ResolvePort
        /\ pc = "print" => ENABLED PrintStart
        /\ pc = "bind" => ENABLED BindOk
        /\ pc = "panicked" => listener = "failed"
        /\ \A c \in ConnIds :
               Replied(c) /\ conns[c].path = <<>> =>
                   Field(conns[c].reply.json, "hostname") = UnknownHost

C7_Witness ==
    /\ ~gotName.valid
    /\ pc = "serving"
    /\ Replied(1) /\ conns[1].path = <<>>
    /\ Field(conns[1].reply.json, "hostname") = UnknownHost

\* ---------------------------------------------------------------------- C8
\* C8: nothing is printed before the port is resolved; from the bind on,
\* failed or not, and while serving, standard output holds exactly one line,
\* the startup line with the resolved port.
C8_OneStartupLine ==
    /\ pc \in {"hostname", "port", "print"} => stdout = <<>>
    /\ pc \in {"bind", "serving", "panicked"} =>
           /\ Len(stdout) = 1
           /\ Head(stdout[1]) = StartPrefix
           /\ IsNumeric(Tail(stdout[1]))
           /\ DecimalValue(Tail(stdout[1])) = port
    /\ listener # "none" => Len(stdout) = 1
    /\ \A c \in ConnIds : conns[c].st # "idle" => Len(stdout) = 1

C8_Witness ==
    /\ pc = "panicked"
    /\ port = 30
    /\ stdout = << <<StartPrefix, "3", "0">> >>

\* ---------------------------------------------------------------------- C9
\* C9: the process has panicked exactly when the bind failed, and then it
\* has served nothing; once the listener is bound the process is serving and
\* can always take a step for a request.
C9_OnlyBindIsFatal ==
    /\ pc = "panicked" <=> listener = "failed"
    /\ pc = "panicked" => \A c \in ConnIds : conns[c] = Idle
    /\ listener = "bound" <=> pc = "serving"
    /\ pc = "serving" =>
           \A c \in ConnIds :
               ENABLED Accept(c) \/ ENABLED Handle(c) \/ ENABLED Finish(c)
    /\ pc \in {"hostname", "port", "print", "bind"} => ENABLED NextStartup

C9_Witness ==
    /\ pc = "panicked"
    /\ listener = "failed"
    /\ ~gotName.valid
    /\ envPORT = Present(<<"a">>)

\* --------------------------------------------------------------------- C10
\* A reply without its timestamp.
Untimed(r) ==
    [status |-> r.status, text |-> r.text,
     json |-> SelectSeq(r.json, LAMBDA kv : kv[1] # "timestamp")]

\* C10: whatever the other connections do, the status and the body of a
\* reply, timestamp apart, are those of its own path under the hostname of
\* startup, and two replies to one path agree on them.
C10_RepliesIndependent ==
    \A c \in ConnIds :
        Replied(c) =>
            /\ hostname = HostnameOr(gotName)
            /\ Untimed(conns[c].reply) = Untimed(Served(conns[c].path))
            /\ \A d \in ConnIds :
                   Replied(d) /\ conns[d].path = conns[c].path =>
                       Untimed(conns[d].reply) = Untimed(conns[c].reply)

C10_Witness ==
    /\ Replied(1) /\ conns[1].path = <<>>
    /\ conns[2].st = "received" /\ conns[2].path = <<"health">>
    /\ now > 0
    /\ osHostname # gotName

====
